---- MODULE Spec2Model ----
(***************************************************************************)
(* Forge AI product designer: the generation pipeline (generateArtifact    *)
(* over the Gemini service with generateContentWithRetry) and the project  *)
(* persistence of ProjectProvider (debounced autosave, project switch).    *)
(*                                                                         *)
(* Texts (idea input, backend responses, error messages) are sequences of  *)
(* one-character strings, so that trim(), includes() and the JavaScript    *)
(* truthiness of a string are computed rather than assumed.                *)
(***************************************************************************)
EXTENDS Integers, Sequences, FiniteSets, TLC

\* ------------------------------------------------------------------ bounds

\* Largest maxRetries argument drawn for generateContentWithRetry.
MaxRetriesArg == 3

\* ------------------------------------------------------- program constants

\* maxRetries = 3, the default argument of generateContentWithRetry.
DefaultMaxRetries == 3

\* Math.pow(2, attempt) * 1000: the backoff base in milliseconds.
BackoffBaseMs == 1000

\* ------------------------------------------------------------------ texts

Min3(n) == IF n < 3 THEN n ELSE 3

\* String.prototype.includes on character sequences.
Includes(s, pat) ==
    \E i \in 0..(Len(s) - Len(pat)) : SubSeq(s, i + 1, i + Len(pat)) = pat

\* The literal '429' the retry loop searches the error message for.
Lit429 == <<"4", "2", "9">>

\* ------------------------------------------------- the generative backend

\* What one ai.models.generateContent call can do: resolve with a response
\* carrying a text, or reject with an error. An error carries the fields the
\* retry loop reads (message, status, code; 0 stands for an absent number,
\* <<>> for an absent message) and class, the failure taxonomy of the
\* backend, which the code never reads.
Response(t) == [kind |-> "response", text |-> t, class |-> "ok",
                status |-> 200, code |-> 0, message |-> <<>>]

BackendError(c, st, cd, msg) ==
    [kind |-> "error", text |-> <<>>, class |-> c,
     status |-> st, code |-> cd, message |-> msg]

RateLimitStatus == BackendError("rate_limit", 429, 0, <<"q">>)
RateLimitCode   == BackendError("rate_limit", 0, 429, <<>>)
RateLimitText   == BackendError("rate_limit", 0, 0, <<"e", "4", "2", "9">>)
Unavailable     == BackendError("unavailable", 503, 0, <<"5", "0", "3">>)
AuthFailure     == BackendError("auth", 401, 0, <<"k">>)
\* A malformed-request rejection whose text happens to hold the digits 429
\* (for instance a token count of 4290).
MalformedText   == BackendError("malformed", 400, 0, <<"n", "4", "2", "9", "0">>)
PolicyRejection == BackendError("policy", 0, 0, <<"p">>)

\* new Error("Max retries exceeded"), thrown after the loop.
MaxRetriesExceeded == BackendError("max_retries", 0, 0, <<"M">>)

\* new Error("API Key not found in environment variables"), thrown by getClient.
ApiKeyMissing == BackendError("no_api_key", 0, 0, <<"A">>)

RateLimitErrors == {RateLimitStatus, RateLimitCode, RateLimitText}
NonRetryableErrors == {AuthFailure, MalformedText, PolicyRejection}
BackendErrors == RateLimitErrors \cup {Unavailable} \cup NonRetryableErrors

\* Texts a backend response can carry (the empty text included).
ResponseTexts == {<<>>, <<"V">>}

BackendOutcomes == {Response(t) : t \in ResponseTexts} \cup BackendErrors

\* A scripted backend: the outcome of its 1st, 2nd, ... call.
Scripts(n) == [1..n -> BackendOutcomes]

\* ------------------------------------------------ generateContentWithRetry

\* const isRateLimit = error.message?.includes('429') || error.status === 429
\*                     || error.code === 429;
isRateLimit(error) ==
    \/ Includes(error.message, Lit429)
    \/ error.status = 429
    \/ error.code = 429

\* const waitTime = Math.pow(2, attempt) * 1000;
\* (waitTime_afterIncrement: the delay computed after attempt++ instead.)
waitTime_afterIncrement(attempt) == (2 ^ (attempt + 1)) * BackoffBaseMs

waitTime(attempt) == (2 ^ attempt) * BackoffBaseMs

\* isRateLimit && attempt < maxRetries - 1
\* (shouldRetry_everyAttempt: without the bound on attempt.)
shouldRetry_everyAttempt(error, attempt, maxRetries) == isRateLimit(error)

shouldRetry(error, attempt, maxRetries) ==
    isRateLimit(error) /\ attempt < maxRetries - 1

\* One run of generateContentWithRetry against a scripted backend:
\*   attempt  the loop counter,
\*   trace    the backend calls ("call") and backoff delays ("delay", ms) so far,
\*   pc       "loop" while running, "done" once it returned or threw,
\*   result   what it returned ("returned") or threw ("threw").
NoResult == [kind |-> "none", value |-> Response(<<>>)]

RetryStart(script, maxRetries) ==
    [script |-> script, maxRetries |-> maxRetries, attempt |-> 0,
     trace |-> <<>>, pc |-> "loop", result |-> NoResult]

CallEvent == [ev |-> "call", ms |-> 0]
DelayEvent(ms) == [ev |-> "delay", ms |-> ms]

Calls(r) == Cardinality({i \in 1..Len(r.trace) : r.trace[i].ev = "call"})
Delays(r) == LET idx == {i \in 1..Len(r.trace) : r.trace[i].ev = "delay"}
                 RECURSIVE Collect(_)
                 Collect(i) == IF i > Len(r.trace) THEN <<>>
                               ELSE IF i \in idx
                                    THEN <<r.trace[i].ms>> \o Collect(i + 1)
                                    ELSE Collect(i + 1)
             IN  Collect(1)

\* The outcome of the backend call the loop is about to make.
NextOutcome(r) == r.script[Calls(r) + 1]

\* while (attempt < maxRetries) fails: throw new Error("Max retries exceeded")
LoopExit(r) ==
    [r EXCEPT !.pc = "done",
              !.result = [kind |-> "threw", value |-> MaxRetriesExceeded]]

\* try { const response = await ai.models.generateContent(...); return response; }
TryReturn(r) ==
    [r EXCEPT !.trace = Append(@, CallEvent),
              !.pc = "done",
              !.result = [kind |-> "returned", value |-> NextOutcome(r)]]

\* catch: await delay(waitTime); attempt++;
CatchBackoff(r) ==
    [r EXCEPT !.trace = @ \o <<CallEvent, DelayEvent(waitTime(r.attempt))>>,
              !.attempt = @ + 1]

\* catch: console.error(...); throw error;
CatchThrow(r) ==
    [r EXCEPT !.trace = Append(@, CallEvent),
              !.pc = "done",
              !.result = [kind |-> "threw", value |-> NextOutcome(r)]]

\* One iteration of the loop.
RetryStep(r) ==
    IF ~(r.attempt < r.maxRetries) THEN LoopExit(r)
    ELSE IF NextOutcome(r).kind = "response" THEN TryReturn(r)
    ELSE IF shouldRetry(NextOutcome(r), r.attempt, r.maxRetries)
         THEN CatchBackoff(r)
         ELSE CatchThrow(r)

\* The whole call, run to its end.
RECURSIVE generateContentWithRetry(_)
generateContentWithRetry(r) ==
    IF r.pc = "done" THEN r ELSE generateContentWithRetry(RetryStep(r))

\* ------------------------------------------------------- project state

NoUser == "signed_out"
TheUser == "u1"

\* currentProjectId === undefined, and a state object without an id field.
NoId == "undefined"

\* Identifiers the document store allocates, in the order it allocates them.
ProjectIdSeq == <<"p1", "p2">>
ProjectIds == {ProjectIdSeq[i] : i \in 1..Len(ProjectIdSeq)}

Steps == {"IDEA", "PRD", "PLANNING", "DESIGN", "CODE"}

\* Auto-save every 2s of inactivity: the delay of the autosave setTimeout.
AutosaveDelayMs == 2000

\* Granularity of the model's clock: the number of ticks in one quiet period.
TicksPerQuietPeriod == 2

UntitledTitle == [base |-> "Untitled Project", n |-> 0]
\* "New Project " + (projects.length + 1)
NewProjectTitle(projects) == [base |-> "New Project", n |-> Len(projects) + 1]

initialState ==
    [id |-> NoId,
     title |-> UntitledTitle,
     currentStep |-> "IDEA",
     research |-> <<>>,
     ideaInput |-> <<>>,
     synthesizedIdea |-> <<>>,
     prdOutput |-> <<>>,
     roadmapOutput |-> <<>>,
     designSystemOutput |-> <<>>,
     codePromptOutput |-> <<>>,
     isGenerating |-> FALSE]

\* The output slot generateArtifact(step) writes.
SlotOf(step) ==
    CASE step = "IDEA"     -> "synthesizedIdea"
      [] step = "PRD"      -> "prdOutput"
      [] step = "PLANNING" -> "roadmapOutput"
      [] step = "DESIGN"   -> "designSystemOutput"
      [] step = "CODE"     -> "codePromptOutput"

Slots == {SlotOf(s) : s \in Steps}

SlotValues(st) == [sl \in Slots |-> st[sl]]

\* A JavaScript string is truthy iff it is not empty.
Truthy(text) == Len(text) > 0

\* a || b on strings.
OrElse(a, b) == IF Truthy(a) THEN a ELSE b

\* String.prototype.trim.
Whitespace == {" "}
RECURSIVE TrimStart(_)
TrimStart(s) ==
    IF Len(s) > 0 /\ Head(s) \in Whitespace THEN TrimStart(Tail(s)) ELSE s
RECURSIVE TrimEnd(_)
TrimEnd(s) ==
    IF Len(s) > 0 /\ s[Len(s)] \in Whitespace
    THEN TrimEnd(SubSeq(s, 1, Len(s) - 1)) ELSE s
Trim(s) == TrimEnd(TrimStart(s))

\* Texts the user types into the idea textarea.
IdeaInputs == {<<" ">>, <<"f">>}

\* Files the user uploads (picked in the file dialog, or dropped on the drop
\* zone, which takes any file): name, declared media type, and bytes.
PdfFile  == [name |-> "a.pdf", type |-> "application/pdf", bytes |-> <<37, 80>>]
TextFile == [name |-> "n.md", type |-> "", bytes |-> <<109>>]
PngFile  == [name |-> "i.png", type |-> "image/png", bytes |-> <<137, 80>>]
Files == {PdfFile, TextFile, PngFile}

\* The base64 alphabet.
Base64Alphabet ==
    <<"A", "B", "C", "D", "E", "F", "G", "H", "I", "J", "K", "L", "M", "N", "O", "P",
      "Q", "R", "S", "T", "U", "V", "W", "X", "Y", "Z", "a", "b", "c", "d", "e", "f",
      "g", "h", "i", "j", "k", "l", "m", "n", "o", "p", "q", "r", "s", "t", "u", "v",
      "w", "x", "y", "z", "0", "1", "2", "3", "4", "5", "6", "7", "8", "9", "+", "/">>

Base64Char(n) == Base64Alphabet[n + 1]

\* The base64 encoding of a byte sequence: three bytes to four characters,
\* the last group padded with "=".
RECURSIVE Base64(_)
Base64(bytes) ==
    IF Len(bytes) = 0 THEN <<>>
    ELSE LET n == Min3(Len(bytes))
             b2 == IF n >= 2 THEN bytes[2] ELSE 0
             b3 == IF n >= 3 THEN bytes[3] ELSE 0
             v == bytes[1] * 65536 + b2 * 256 + b3
         IN  <<Base64Char(v \div 262144),
               Base64Char((v \div 4096) % 64),
               IF n >= 2 THEN Base64Char((v \div 64) % 64) ELSE "=",
               IF n >= 3 THEN Base64Char(v % 64) ELSE "=">>
             \o Base64(SubSeq(bytes, n + 1, Len(bytes)))

\* FileReader.readAsDataURL: "data:<type>;base64,<base64 of the bytes>".
ReadAsDataURL(file) == <<"d", ":", "t", ";", "b", ",">> \o Base64(file.bytes)

\* file.text(): the bytes decoded as UTF-8; a byte that is no valid UTF-8
\* (here: any byte above 127) becomes the replacement character U+FFFD.
ReplacementChar == "U+FFFD"
Utf8Char(b) ==
    CASE b = 37  -> "%"
      [] b = 80  -> "P"
      [] b = 109 -> "m"
      [] OTHER   -> ReplacementChar

FileText(file) == [i \in 1..Len(file.bytes) |-> Utf8Char(file.bytes[i])]

\* result.split(',')[1]: the text between the first and the second comma.
RECURSIVE UpToComma(_)
UpToComma(s) ==
    IF Len(s) = 0 \/ Head(s) = "," THEN <<>>
    ELSE <<Head(s)>> \o UpToComma(Tail(s))
RECURSIVE AfterComma(_)
AfterComma(s) ==
    IF Len(s) = 0 THEN <<>>
    ELSE IF Head(s) = "," THEN Tail(s) ELSE AfterComma(Tail(s))
SplitCommaSecond(s) == UpToComma(AfterComma(s))

\* Math.random().toString(36).substr(2, 9)
DocIds == {"d1"}

\* The ResearchDocument addResearch builds from a file.
ResearchDoc(file, docId) ==
    IF file.type = "application/pdf"
    THEN [id |-> docId, name |-> file.name,
          content |-> SplitCommaSecond(ReadAsDataURL(file)),
          mimeType |-> file.type, source |-> "upload"]
    ELSE [id |-> docId, name |-> file.name, content |-> FileText(file),
          mimeType |-> IF file.type = "" THEN "text/plain" ELSE file.type,
          source |-> "upload"]

\* ------------------------------------------------------ the Gemini service

\* response.text || "Failed to ...": the text a service function returns.
FallbackText(step) ==
    CASE step = "IDEA"     -> <<"F", "i">>
      [] step = "PRD"      -> <<"F", "p">>
      [] step = "PLANNING" -> <<"F", "r">>
      [] step = "DESIGN"   -> <<"F", "d">>
      [] step = "CODE"     -> <<"F", "c">>

ServiceText(step, response) == OrElse(response.text, FallbackText(step))

\* The arguments generateArtifact passes to the service function of a step,
\* read from the state of the render in which it was invoked.
ServiceArgs(step, st) ==
    CASE step = "IDEA" ->
            [fn |-> "refineIdea", idea |-> st.ideaInput, research |-> <<>>,
             prd |-> <<>>, roadmap |-> <<>>, design |-> <<>>]
      [] step = "PRD" ->
            [fn |-> "generatePRD",
             idea |-> OrElse(st.synthesizedIdea, st.ideaInput),
             research |-> st.research,
             prd |-> <<>>, roadmap |-> <<>>, design |-> <<>>]
      [] step = "PLANNING" ->
            [fn |-> "generatePlan", idea |-> <<>>, research |-> <<>>,
             prd |-> st.prdOutput, roadmap |-> <<>>, design |-> <<>>]
      [] step = "DESIGN" ->
            [fn |-> "generateDesignSystem", idea |-> <<>>, research |-> <<>>,
             prd |-> st.prdOutput, roadmap |-> st.roadmapOutput, design |-> <<>>]
      [] step = "CODE" ->
            [fn |-> "generateCodePrompt",
             idea |-> OrElse(st.synthesizedIdea, st.ideaInput),
             research |-> <<>>, prd |-> <<>>,
             roadmap |-> st.roadmapOutput, design |-> st.designSystemOutput]

\* generatePRD(idea, research): the parts array it sends. A part is a text
\* part or an inlineData part (mimeType, data).
TextPart(text) == [kind |-> "text", text |-> text, mimeType |-> "", data |-> <<>>]
InlineDataPart(mimeType, data) ==
    [kind |-> "inlineData", text |-> <<>>, mimeType |-> mimeType, data |-> data]

\* The instruction text: the template around ${idea}.
PrdInstruction(idea) == <<"PRODUCT VISION:", "\n">> \o idea \o <<"\n", "TASK:">>

\* `--- RESEARCH DOCUMENT: ${doc.name} ---\n${doc.content}\n--- END DOCUMENT ---`
DelimitedDocument(doc) ==
    <<"--- RESEARCH DOCUMENT: ", doc.name, " ---", "\n">> \o doc.content
        \o <<"\n", "--- END DOCUMENT ---">>

\* research.forEach(doc => parts.push(...))
ResearchPart(doc) ==
    IF doc.mimeType = "application/pdf"
    THEN InlineDataPart("application/pdf", doc.content)
    ELSE TextPart(DelimitedDocument(doc))

PrdParts(idea, research) ==
    <<TextPart(PrdInstruction(idea))>>
        \o [i \in 1..Len(research) |-> ResearchPart(research[i])]

\* Outcomes the backend is scripted with while a project is driven.
ServiceBackendOutcomes ==
    {Response(<<>>), Response(<<"V">>), RateLimitStatus, AuthFailure}

\* What one service call (getClient, then generateContentWithRetry with the
\* default maxRetries) can end in: kind "returned" with the response or
\* "threw" with the error, and whether the backend was called at all.
ServiceRuns ==
    {generateContentWithRetry(RetryStart(script, DefaultMaxRetries)) :
        script \in [1..DefaultMaxRetries -> ServiceBackendOutcomes]}

ServiceResults(hasApiKey) ==
    IF hasApiKey
    THEN {[kind |-> r.result.kind, value |-> r.result.value,
           calledBackend |-> Calls(r) > 0] : r \in ServiceRuns}
    ELSE {[kind |-> "threw", value |-> ApiKeyMissing, calledBackend |-> FALSE]}

\* ------------------------------------------------------ the document store

\* The store of one user: documents most recently updated first, each with
\* the project identifier and the stored state.
StoreHas(st, pid) == \E i \in 1..Len(st) : st[i].id = pid

StoreDoc(st, pid) == st[CHOOSE i \in 1..Len(st) : st[i].id = pid]

StoreRemove(st, pid) == SelectSeq(st, LAMBDA d : d.id # pid)

\* saveProject(uid, projectId, state): upsert.
storeSave(st, pid, data) ==
    <<[id |-> pid, data |-> data]>> \o StoreRemove(st, pid)

\* createProject(uid, state): allocate an identifier (never one allocated
\* before) and write the state under it.
FreshId(n) == ProjectIdSeq[n + 1]

\* getUserProjects(uid): the metadata of the user's projects, most recently
\* updated first; saved tells an entry refreshed by a local save
\* (updatedAt: Date.now()) from one as listed by the store.
getUserProjects(st) ==
    [i \in 1..Len(st) |->
        [id |-> st[i].id, title |-> st[i].data.title, saved |-> FALSE]]

\* loadProject(uid, projectId): the stored state, or null when absent.
Null == [initialState EXCEPT !.id = "null"]
storeLoad(st, pid) == IF StoreHas(st, pid) THEN StoreDoc(st, pid).data ELSE Null

\* ------------------------------------------- the firebase module in src

\* The 'projects' collection: one document per document identifier, which
\* saveProject and loadProject take to be the user identifier.
Users == {"u1", "u2"}
NoDoc == [initialState EXCEPT !.id = "no_document"]
EmptyDb == [u \in Users |-> NoDoc]

\* Errors of setDoc / getDoc.
StoreUnavailable == BackendError("store_unavailable", 0, 0, <<>>)

\* saveProject(userId, data): await setDoc(doc(db, 'projects', userId), data);
\* an error is logged and rethrown.
saveProject(db, userId, data, fails) ==
    IF fails
    THEN [db |-> db, threw |-> StoreUnavailable]
    ELSE [db |-> [db EXCEPT ![userId] = data],
          threw |-> BackendError("none", 0, 0, <<>>)]

\* loadProject(userId): getDoc(doc(db, 'projects', userId)); the data when
\* docSnap.exists(), else null; an error is logged and null is returned.
loadProject(db, userId, fails) ==
    IF fails
    THEN [value |-> Null, threw |-> BackendError("none", 0, 0, <<>>)]
    ELSE [value |-> IF db[userId] # NoDoc THEN db[userId] ELSE Null,
          threw |-> BackendError("none", 0, 0, <<>>)]

\* States a caller saves: two versions of project p1 and one of project p2.
FsStates ==
    {[initialState EXCEPT !.id = "p1", !.title = [base |-> "New Project", n |-> 1]],
     [initialState EXCEPT !.id = "p1", !.title = [base |-> "New Project", n |-> 1],
                          !.prdOutput = <<"V">>],
     [initialState EXCEPT !.id = "p2", !.title = [base |-> "New Project", n |-> 2]]}

\* ------------------------------------------------------------------ state

\* Largest number of user operations in one run.
MaxOps == 3

VARIABLES
    retry,            \* the run of generateContentWithRetry under test
    fs,               \* the firebase module under test: its collection and
                      \* the saveProject / loadProject call just made
    apiKey,           \* whether the environment holds an API key
    user,             \* useAuth().user
    state,            \* ProjectProvider: state
    currentProjectId, \* ProjectProvider: currentProjectId
    projects,         \* ProjectProvider: projects (metadata list)
    store,            \* the document store of the user
    timers,           \* pending autosave timeouts, each with what it captured
    calls,            \* generateArtifact calls in flight
    loads,            \* loadProjectDetails calls in flight
    creates,          \* createNewProject calls in flight
    deletes,          \* handleDeleteProject calls in flight
    listFetch,        \* getUserProjects of the sign-in effect in flight
    allocated,        \* identifiers the store has allocated so far
    ops,              \* user operations so far
    \* history
    stateOwner,       \* the project the in-memory state was loaded or created as
    sinceMut,         \* milliseconds since the autosave effect last ran
    burst,            \* mutations since the last quiet period: none, one, many
    writes,           \* saveProject calls since the autosave effect last ran
    saveFailed,       \* the last of them failed (the store was unreachable)
    generated,        \* slots a successful generation wrote into the state since
                      \* it was created or last reset
    storedGenerated,  \* the same, for the state stored under each identifier
    deletedActive,    \* the project handleDeleteProject last deleted while it
                      \* was the active one, if any since sign-in
    lastSaved,        \* the state of the last completed write under each
                      \* identifier (createProject or saveProject), Null if none
    ingest,           \* the addResearch call of the step just taken, if any
    loaded,           \* the loadProject result of the step just taken, if any
    lastWrite,        \* the saveProject call of the step just taken, if any
    reset,            \* the resetProject call of the step just taken, if any
    ended             \* the generateArtifact call the step just taken ended, if any

provider == <<apiKey, user, state, currentProjectId, projects, store, timers,
              calls, loads, creates, deletes, listFetch, allocated, ops>>
history == <<stateOwner, sinceMut, burst, writes, saveFailed, generated,
             storedGenerated, deletedActive, lastSaved, ingest, loaded,
              lastWrite, reset, ended>>
vars == <<retry, fs, provider, history>>

NoWrite == [pid |-> NoId, st |-> initialState, owner |-> NoId,
            elapsed |-> 0, current |-> initialState, burst |-> "none",
            afterSwitch |-> FALSE, existed |-> FALSE, failed |-> FALSE,
            afterFailure |-> FALSE, listBefore |-> <<>>]

NoIngest == [file |-> "none", failed |-> FALSE, settled |-> "none",
             before |-> <<>>]

NoLoad == [pid |-> NoId, data |-> Null, found |-> FALSE]

NoReset == [before |-> initialState, idBefore |-> NoId, again |-> FALSE,
            done |-> FALSE]

NoError == BackendError("none", 0, 0, <<>>)

NoCall == [step |-> "none", overlapped |-> FALSE,
           prereqEmpty |-> FALSE, calledBackend |-> FALSE,
           thrown |-> NoError, outcome |-> "none", raised |-> NoError,
           responseText |-> <<>>, serviceText |-> <<>>,
           slotsAtStart |-> SlotValues(initialState),
           slotsBefore |-> SlotValues(initialState),
           atStart |-> initialState, before |-> initialState,
           touchedAtStart |-> {}, idAtStart |-> NoId, idBefore |-> NoId,
           edited |-> FALSE, lastIdea |-> <<>>, added |-> <<>>,
           regenerated |-> FALSE]

ProviderInit ==
    /\ apiKey \in BOOLEAN
    /\ user = NoUser
    /\ state = initialState
    /\ currentProjectId = NoId
    /\ projects = <<>>
    /\ store = <<>>
    /\ timers = {}
    /\ calls = {}
    /\ loads = {}
    /\ creates = {}
    /\ deletes = {}
    /\ listFetch = <<>>
    /\ allocated = 0
    /\ ops = 0
    /\ stateOwner = NoId
    /\ sinceMut = 0
    /\ burst = "none"
    /\ writes = 0
    /\ saveFailed = FALSE
    /\ generated = {}
    /\ storedGenerated = [p \in ProjectIds |-> {}]
    /\ deletedActive = NoId
    /\ lastSaved = [p \in ProjectIds |-> Null]
    /\ ingest = NoIngest
    /\ loaded = NoLoad
    /\ lastWrite = NoWrite
    /\ reset = NoReset
    /\ ended = NoCall

RetryIdle == RetryStart(<<Response(<<>>)>>, 0)

NoFsCall == [kind |-> "none", user |-> "u1", project |-> NoId, failed |-> FALSE,
             existed |-> FALSE, value |-> Null,
             threw |-> BackendError("none", 0, 0, <<>>), before |-> EmptyDb]

FsIdle == [db |-> EmptyDb, op |-> NoFsCall]


\* ------------------------------------------------------ the autosave effect

\* return () => clearTimeout(timeoutId): the cleanup of the previous effect.
EffectCleanup_keepsTimer(pending) == pending

EffectCleanup(pending) == {}

\* useEffect(..., [state, user, currentProjectId]): run after every render in
\* which one of them changed; the timeout captures that render's values.
\* afterSwitch records that the save pending before was for another project.
\* afterFailure records that the save attempt before this one failed.
AutosaveEffect(u, pid, st, own, gen, pending) ==
    IF u # NoUser /\ pid # NoId
    THEN EffectCleanup(pending) \cup
            {[pid |-> pid, st |-> st, owner |-> own, remaining |-> AutosaveDelayMs,
              generated |-> gen, afterFailure |-> saveFailed,
              afterSwitch |-> \E t \in pending :
                                 t.pid # pid \/ (t.pid = pid /\ t.afterSwitch)]}
    ELSE EffectCleanup(pending)

\* A timeout that is due runs before anything else happens.
NoTimerDue == \A t \in timers : t.remaining > 0

\* A render after setState / setCurrentProjectId / a change of user, followed
\* by the autosave effect.
Render(st2, u2, pid2, own2, gen2) ==
    /\ state' = st2
    /\ user' = u2
    /\ currentProjectId' = pid2
    /\ stateOwner' = own2
    /\ generated' = gen2
    /\ timers' = AutosaveEffect(u2, pid2, st2, own2, gen2, timers)
    /\ sinceMut' = 0
    /\ burst' = IF u2 # NoUser /\ pid2 # NoId
                THEN (IF timers # {} THEN "many" ELSE "one")
                ELSE "none"
    /\ writes' = 0
    /\ saveFailed' = FALSE

UserOp == ops < MaxOps /\ NoTimerDue /\ ops' = ops + 1

\* --------------------------------------------------- sign-in and sign-out

\* What each generateArtifact call in flight has seen happen since it started:
\* the last idea passed to updateIdea, the documents addResearch appended,
\* both forgotten when the state is replaced as a whole (reset, load, create,
\* sign-out).
CallsAfterEdit(cs, idea) ==
    {[c EXCEPT !.edited = TRUE, !.lastIdea = idea] : c \in cs}
CallsAfterUpload(cs, doc) ==
    {[c EXCEPT !.added = Append(@, doc)] : c \in cs}
CallsAfterReplace(cs) ==
    {[c EXCEPT !.edited = FALSE, !.lastIdea = <<>>, !.added = <<>>] : c \in cs}

\* The effect on [user], user set: getUserProjects(user.uid).then(...)
SignIn ==
    /\ user = NoUser
    /\ UserOp
    /\ listFetch' = Append(listFetch, [n |-> Len(projects)])
    /\ Render(state, TheUser, currentProjectId, stateOwner, generated)
    /\ UNCHANGED <<retry, apiKey, projects, store, calls, loads, creates,
                   allocated>>
    /\ lastWrite' = NoWrite /\ ended' = NoCall
    /\ UNCHANGED <<deletes, fs, lastSaved, storedGenerated>>
    /\ loaded' = NoLoad /\ reset' = NoReset
    /\ UNCHANGED deletedActive
    /\ ingest' = NoIngest

\* The effect on [user], user null: setState(initialState); setProjects([]);
\* setCurrentProjectId(undefined)
SignOut ==
    /\ user # NoUser
    /\ UserOp
    /\ projects' = <<>>
    /\ Render(initialState, NoUser, NoId, NoId, {})
    /\ calls' = CallsAfterReplace(calls)
    /\ UNCHANGED <<retry, apiKey, store, loads, creates, listFetch, allocated>>
    /\ lastWrite' = NoWrite /\ ended' = NoCall
    /\ UNCHANGED <<deletes, fs, lastSaved, storedGenerated>>
    /\ loaded' = NoLoad /\ reset' = NoReset
    /\ deletedActive' = NoId
    /\ ingest' = NoIngest

RemoveAt(s, i) == SubSeq(s, 1, i - 1) \o SubSeq(s, i + 1, Len(s))

\* .then(list => ...): load the most recent project, or create one.
ListFetched(i) ==
    /\ NoTimerDue
    /\ LET list == getUserProjects(store) IN
        /\ projects' = list
        /\ IF Len(list) > 0
           THEN /\ loads' = loads \cup {list[1].id}
                /\ UNCHANGED creates
           ELSE /\ creates' = creates \cup
                        {[base |-> "New Project", n |-> listFetch[i].n + 1]}
                /\ UNCHANGED loads
    /\ listFetch' = RemoveAt(listFetch, i)
    /\ UNCHANGED <<retry, apiKey, user, state, currentProjectId, store, timers,
                   calls, allocated, ops, stateOwner, sinceMut, burst, writes, saveFailed, generated>>
    /\ lastWrite' = NoWrite /\ ended' = NoCall
    /\ UNCHANGED <<deletes, fs, lastSaved, storedGenerated>>
    /\ loaded' = NoLoad /\ reset' = NoReset
    /\ UNCHANGED deletedActive
    /\ ingest' = NoIngest

\* ------------------------------------------------------ project lifecycle

\* loadProjectDetails(projectId), up to the await.
LoadStart(pid) ==
    /\ user # NoUser
    /\ \E k \in 1..Len(projects) : projects[k].id = pid
    /\ pid \notin loads
    /\ UserOp
    /\ loads' = loads \cup {pid}
    /\ UNCHANGED <<retry, apiKey, user, state, currentProjectId, projects, store,
                   timers, calls, creates, listFetch, allocated, stateOwner, sinceMut, burst, writes, saveFailed, generated>>
    /\ lastWrite' = NoWrite /\ ended' = NoCall
    /\ UNCHANGED <<deletes, fs, lastSaved, storedGenerated>>
    /\ loaded' = NoLoad /\ reset' = NoReset
    /\ UNCHANGED deletedActive
    /\ ingest' = NoIngest

\* if (data) { setState({ ...data, id: projectId }); setCurrentProjectId(projectId) }
\* (loadProjectDetails_keepsCurrentId: without setCurrentProjectId;
\* loadProjectDetails_ignoresData: installing an empty state instead of data.)
loadProjectDetails_ignoresData(cur, data, projectId) ==
    [state |-> [initialState EXCEPT !.id = projectId, !.title = data.title],
     currentProjectId |-> projectId]

loadProjectDetails_keepsCurrentId(cur, data, projectId) ==
    [state |-> [data EXCEPT !.id = projectId], currentProjectId |-> cur]

loadProjectDetails(cur, data, projectId) ==
    [state |-> [data EXCEPT !.id = projectId], currentProjectId |-> projectId]

\* loadProjectDetails(projectId), after the await.
LoadDone(pid) ==
    /\ pid \in loads
    /\ NoTimerDue
    /\ loads' = loads \ {pid}
    /\ \E reachable \in BOOLEAN :
        LET data == IF reachable THEN storeLoad(store, pid) ELSE Null IN
        IF data # Null
        THEN LET next == loadProjectDetails(currentProjectId, data, pid) IN
             /\ Render(next.state, user, next.currentProjectId, pid,
                       storedGenerated[pid])
             /\ loaded' = [pid |-> pid, data |-> data, found |-> TRUE]
             /\ calls' = CallsAfterReplace(calls)
        ELSE /\ loaded' = NoLoad
             /\ UNCHANGED <<calls, user, state, currentProjectId, timers, stateOwner,
                         sinceMut, burst, writes, saveFailed, generated>>
    /\ UNCHANGED <<retry, apiKey, projects, store, creates, listFetch,
                   allocated, ops>>
    /\ lastWrite' = NoWrite /\ ended' = NoCall
    /\ UNCHANGED <<deletes, fs, lastSaved, storedGenerated>>
    /\ reset' = NoReset
    /\ UNCHANGED deletedActive
    /\ ingest' = NoIngest

\* createNewProject(), up to the first await.
CreateStart ==
    /\ user # NoUser
    /\ NewProjectTitle(projects) \notin creates
    /\ UserOp
    /\ creates' = creates \cup {NewProjectTitle(projects)}
    /\ UNCHANGED <<retry, apiKey, user, state, currentProjectId, projects, store,
                   timers, calls, loads, listFetch, allocated, stateOwner, sinceMut, burst, writes, saveFailed, generated>>
    /\ lastWrite' = NoWrite /\ ended' = NoCall
    /\ UNCHANGED <<deletes, fs, lastSaved, storedGenerated>>
    /\ loaded' = NoLoad /\ reset' = NoReset
    /\ UNCHANGED deletedActive
    /\ ingest' = NoIngest

\* createNewProject(), after the awaits: createProject, getUserProjects, then
\* setProjects, setCurrentProjectId, setState; or the catch.
CreateDone(title) ==
    /\ title \in creates
    /\ NoTimerDue
    /\ allocated < Len(ProjectIdSeq)
    /\ creates' = creates \ {title}
    /\ LET newProject == [initialState EXCEPT !.title = title]
           newId == FreshId(allocated)
           written == storeSave(store, newId, newProject)
       IN  \E outcome \in {"created", "create_failed", "list_failed"} :
            CASE outcome = "created" ->
                    /\ store' = written
                    /\ storedGenerated' = [storedGenerated EXCEPT ![newId] = {}]
                    /\ lastSaved' = [lastSaved EXCEPT ![newId] = newProject]
                    /\ allocated' = allocated + 1
                    /\ projects' = getUserProjects(written)
                    /\ Render([newProject EXCEPT !.id = newId], user, newId, newId, {})
                    /\ calls' = CallsAfterReplace(calls)
              [] outcome = "list_failed" ->
                    /\ store' = written
                    /\ storedGenerated' = [storedGenerated EXCEPT ![newId] = {}]
                    /\ lastSaved' = [lastSaved EXCEPT ![newId] = newProject]
                    /\ allocated' = allocated + 1
                    /\ UNCHANGED <<calls, projects, user, state, currentProjectId, timers,
                                   stateOwner, sinceMut, burst, writes, saveFailed, generated>>
              [] outcome = "create_failed" ->
                    UNCHANGED <<calls, store, storedGenerated, lastSaved, allocated, projects, user, state,
                                currentProjectId, timers, stateOwner, sinceMut,
                                burst, writes, saveFailed, generated>>
    /\ UNCHANGED <<retry, apiKey, loads, listFetch, ops>>
    /\ lastWrite' = NoWrite /\ ended' = NoCall
    /\ UNCHANGED <<deletes, fs>>
    /\ loaded' = NoLoad /\ reset' = NoReset
    /\ UNCHANGED deletedActive
    /\ ingest' = NoIngest

\* deleteProject(uid, projectId): remove the document.
deleteProject(st, pid) == StoreRemove(st, pid)

\* handleDeleteProject(projectId), confirmed, up to the first await.
DeleteStart(pid) ==
    /\ user # NoUser
    /\ \E k \in 1..Len(projects) : projects[k].id = pid
    /\ \A d \in deletes : d.pid # pid
    /\ UserOp
    /\ deletes' = deletes \cup
          {[pid |-> pid, wasCurrent |-> (currentProjectId = pid),
            n |-> Len(projects)]}
    /\ UNCHANGED <<retry, apiKey, user, state, currentProjectId, projects, store,
                   timers, calls, loads, creates, listFetch, allocated,
                   stateOwner, sinceMut, burst, writes, saveFailed, generated>>
    /\ lastWrite' = NoWrite /\ ended' = NoCall
    /\ UNCHANGED <<fs, lastSaved, storedGenerated>>
    /\ loaded' = NoLoad /\ reset' = NoReset
    /\ UNCHANGED deletedActive
    /\ ingest' = NoIngest

\* handleDeleteProject(projectId), after the awaits: deleteProject,
\* getUserProjects, setProjects, then the replacement of the active project.
DeleteDone(d) ==
    /\ d \in deletes
    /\ NoTimerDue
    /\ deletes' = deletes \ {d}
    /\ \E reachable \in BOOLEAN :
        IF reachable
        THEN LET remaining == deleteProject(store, d.pid)
                 list == getUserProjects(remaining)
             IN  /\ store' = remaining
                 /\ lastSaved' = [lastSaved EXCEPT ![d.pid] = Null]
                 /\ projects' = list
                 /\ deletedActive' = IF d.wasCurrent THEN d.pid ELSE deletedActive
                 /\ IF ~d.wasCurrent
                    THEN UNCHANGED <<loads, creates>>
                    ELSE IF Len(list) > 0
                         THEN /\ loads' = loads \cup {list[1].id}
                              /\ UNCHANGED creates
                         ELSE /\ creates' = creates \cup
                                      {[base |-> "New Project", n |-> d.n + 1]}
                              /\ UNCHANGED loads
        ELSE UNCHANGED <<store, lastSaved, projects, loads, creates, deletedActive>>
    /\ UNCHANGED <<retry, apiKey, user, state, currentProjectId, timers, calls,
                   listFetch, allocated, ops, stateOwner, sinceMut, burst, writes, saveFailed, generated>>
    /\ lastWrite' = NoWrite /\ ended' = NoCall
    /\ UNCHANGED <<fs, storedGenerated>>
    /\ loaded' = NoLoad /\ reset' = NoReset
    /\ ingest' = NoIngest

\* ------------------------------------------------------------ user edits

\* updateIdea(idea)
UpdateIdea(idea) ==
    /\ UserOp
    /\ Render([state EXCEPT !.ideaInput = idea], user, currentProjectId,
              stateOwner, generated)
    /\ calls' = CallsAfterEdit(calls, idea)
    /\ UNCHANGED <<retry, apiKey, projects, store, loads, creates, listFetch,
                   allocated>>
    /\ lastWrite' = NoWrite /\ ended' = NoCall
    /\ UNCHANGED <<deletes, fs, lastSaved, storedGenerated>>
    /\ loaded' = NoLoad /\ reset' = NoReset
    /\ UNCHANGED deletedActive
    /\ ingest' = NoIngest

\* How the promise of addResearch(file) settles. A PDF is read through a
\* FileReader with an onload handler only (no onerror), so when the read
\* fails the promise the function awaits never settles; any other file is
\* read through file.text(), whose rejection addResearch passes on.
addResearchSettles(file, readable) ==
    IF readable THEN "resolved"
    ELSE IF file.type = "application/pdf" THEN "pending" ELSE "rejected"

\* addResearch(file); the bytes of the file can be read to completion or not.
AddResearch(file) ==
    /\ UserOp
    /\ \E docId \in DocIds, readable \in BOOLEAN :
        /\ ingest' = [file |-> file.name, failed |-> ~readable,
                      settled |-> addResearchSettles(file, readable),
                      before |-> state.research]
        /\ IF readable
           THEN /\ Render([state EXCEPT !.research =
                                        Append(@, ResearchDoc(file, docId))],
                          user, currentProjectId, stateOwner, generated)
                /\ calls' = CallsAfterUpload(calls, ResearchDoc(file, docId))
           ELSE UNCHANGED <<calls, state, user, currentProjectId, stateOwner, generated,
                            timers, sinceMut, burst, writes, saveFailed>>
    /\ UNCHANGED <<retry, apiKey, projects, store, loads, creates, listFetch,
                   allocated>>
    /\ lastWrite' = NoWrite /\ ended' = NoCall
    /\ UNCHANGED <<deletes, fs, lastSaved, storedGenerated>>
    /\ loaded' = NoLoad /\ reset' = NoReset
    /\ UNCHANGED deletedActive

\* resetProject(), confirmed: const resetState = { ...initialState, title: state.title }
\* (resetProject_keepsOutputs: a reset that clears the inputs only;
\* resetProject_keepsIdea: a reset that keeps the idea input.)
resetProject_keepsIdea(st) ==
    [initialState EXCEPT !.title = st.title, !.ideaInput = st.ideaInput]

resetProject_keepsOutputs(st) ==
    [st EXCEPT !.id = NoId, !.currentStep = "IDEA", !.research = <<>>,
               !.ideaInput = <<>>, !.isGenerating = FALSE]

resetProject(st) == [initialState EXCEPT !.title = st.title]

ResetProject ==
    /\ UserOp
    /\ Render(resetProject(state), user, currentProjectId, stateOwner, {})
    /\ calls' = CallsAfterReplace(calls)
    /\ UNCHANGED <<retry, apiKey, projects, store, loads, creates, listFetch,
                   allocated>>
    /\ lastWrite' = NoWrite /\ ended' = NoCall
    /\ UNCHANGED <<deletes, fs, lastSaved, storedGenerated>>
    /\ loaded' = NoLoad
    /\ reset' = [before |-> state, idBefore |-> currentProjectId,
                 again |-> reset.done, done |-> TRUE]
    /\ UNCHANGED deletedActive
    /\ ingest' = NoIngest

\* ------------------------------------------------------------- generation

\* The disabled attribute of each page's generate button (and the early
\* return of IdeaPage.handleRefine): when generateArtifact(step) can be invoked.
CanTrigger(step, st) ==
    CASE step = "IDEA"     -> Truthy(Trim(st.ideaInput)) /\ ~st.isGenerating
      [] step = "PRD"      -> ~st.isGenerating
      [] step = "PLANNING" -> ~(st.isGenerating \/ ~Truthy(st.prdOutput))
      [] step = "DESIGN"   -> ~(st.isGenerating \/ ~Truthy(st.roadmapOutput))
      [] step = "CODE"     -> ~(st.isGenerating \/ ~Truthy(st.designSystemOutput))

\* The stage dependency graph: the slot a step's prerequisite stage writes.
HasPrerequisite(step) == step # "IDEA"
PrerequisiteSlot(step) ==
    CASE step = "PRD"      -> "synthesizedIdea"
      [] step = "PLANNING" -> "prdOutput"
      [] step = "DESIGN"   -> "roadmapOutput"
      [] step = "CODE"     -> "designSystemOutput"

\* setState(prev => ({ ...prev, isGenerating: true }))
generateArtifactStarted(prev) == [prev EXCEPT !.isGenerating = TRUE]

\* generateArtifact(step), up to the await: setState(isGenerating: true), then
\* the service function is called with values read from this render's state;
\* getClient and the first backend request happen before the await.
GenStart(step) ==
    /\ CanTrigger(step, state)
    /\ UserOp
    /\ calls' = {[c EXCEPT !.overlapped = TRUE] : c \in calls} \cup
          {[cid |-> ops,
            overlapped |-> calls # {},
            edited |-> FALSE, lastIdea |-> <<>>, added |-> <<>>,
            step |-> step,
            args |-> ServiceArgs(step, state),
            requested |-> apiKey,
            owner |-> stateOwner,
            slotsAtStart |-> SlotValues(state),
            atStart |-> state,
            idAtStart |-> currentProjectId,
            touchedAtStart |-> {f \in DOMAIN state :
                                  generateArtifactStarted(state)[f] # state[f]},
            prereqEmpty |-> (HasPrerequisite(step)
                                /\ ~Truthy(state[PrerequisiteSlot(step)])),
            regenerated |-> Truthy(state[SlotOf(step)])]}
    /\ Render(generateArtifactStarted(state), user, currentProjectId,
              stateOwner, generated)
    /\ UNCHANGED <<retry, apiKey, projects, store, loads, creates, listFetch,
                   allocated>>
    /\ lastWrite' = NoWrite /\ ended' = NoCall
    /\ UNCHANGED <<deletes, fs, lastSaved, storedGenerated>>
    /\ loaded' = NoLoad /\ reset' = NoReset
    /\ UNCHANGED deletedActive
    /\ ingest' = NoIngest

\* setState(prev => ({ ...prev, ... })): the state an update of generateArtifact
\* spreads is the latest one (prev), not the `state` captured by the render
\* in which generateArtifact was invoked.
\* (UpdateBase_fromClosure: setState({ ...state, ... }) instead.)
UpdateBase_fromClosure(prev, captured) == captured

UpdateBase(prev, captured) == prev

\* setState(prev => ({ ...prev, <slot>: result })), then the finally block.
\* (generateArtifactSucceeded_clearsDownstream: a write that also invalidates
\* the other stages' outputs and the idea input.)
generateArtifactSucceeded_clearsDownstream(prev, step, result) ==
    [initialState EXCEPT ![SlotOf(step)] = result, !.id = prev.id,
                         !.title = prev.title]

generateArtifactSucceeded(prev, step, result) ==
    [prev EXCEPT ![SlotOf(step)] = result, !.isGenerating = FALSE]

\* catch (console.error, alert), then the finally block.
generateArtifactFailed_clearsSlot(prev, step) ==
    [prev EXCEPT ![SlotOf(step)] = <<>>, !.isGenerating = FALSE]

generateArtifactFailed(prev, step) ==
    [prev EXCEPT !.isGenerating = FALSE]

\* How the promise of generateArtifact settles when the service call threw
\* `thrown` (NoError when it did not): the catch block swallows the error.
generateArtifactSettles(thrown) == [outcome |-> "returned", raised |-> NoError]

\* generateArtifact(step), after the await.
GenFinish(c) ==
    /\ c \in calls
    /\ NoTimerDue
    /\ calls' = calls \ {c}
    /\ \E res \in ServiceResults(c.requested) :
        LET ok == res.kind = "returned"
            thrown == IF ok THEN NoError ELSE res.value
            next == IF ok
                    THEN generateArtifactSucceeded(UpdateBase(state, c.atStart), c.step,
                                                   ServiceText(c.step, res.value))
                    ELSE generateArtifactFailed(UpdateBase(state, c.atStart), c.step)
            settled == generateArtifactSettles(thrown)
        IN  /\ Render(next, user, currentProjectId, stateOwner,
                      IF ok THEN generated \cup {SlotOf(c.step)} ELSE generated)
            /\ ended' = [step |-> c.step,
                         overlapped |-> c.overlapped,
                         prereqEmpty |-> c.prereqEmpty,
                         calledBackend |-> res.calledBackend,
                         thrown |-> thrown,
                         responseText |-> IF ok THEN res.value.text ELSE <<>>,
                         serviceText |-> IF ok THEN ServiceText(c.step, res.value)
                                         ELSE <<>>,
                         outcome |-> settled.outcome,
                         raised |-> settled.raised,
                         slotsAtStart |-> c.slotsAtStart,
                         slotsBefore |-> SlotValues(state),
                         atStart |-> c.atStart,
                         before |-> state,
                         touchedAtStart |-> c.touchedAtStart,
                         idAtStart |-> c.idAtStart,
                         idBefore |-> currentProjectId,
                         edited |-> c.edited, lastIdea |-> c.lastIdea,
                         added |-> c.added,
                         regenerated |-> c.regenerated]
    /\ UNCHANGED <<retry, apiKey, projects, store, loads, creates, listFetch,
                   allocated, ops>>
    /\ lastWrite' = NoWrite
    /\ UNCHANGED <<deletes, fs, lastSaved, storedGenerated>>
    /\ loaded' = NoLoad /\ reset' = NoReset
    /\ UNCHANGED deletedActive
    /\ ingest' = NoIngest

\* ------------------------------------------------------- time and autosave

\* The length of one tick, rounded up to a whole millisecond.
TickMs == (AutosaveDelayMs + TicksPerQuietPeriod - 1) \div TicksPerQuietPeriod

Min(a, b) == IF a < b THEN a ELSE b

\* Time passes, by one tick or up to the next timeout that becomes due.
Tick ==
    /\ timers # {}
    /\ NoTimerDue
    /\ LET next == CHOOSE d \in {t.remaining : t \in timers} :
                        \A t \in timers : d <= t.remaining
           dt == Min(TickMs, next)
       IN  /\ timers' = {[t EXCEPT !.remaining = @ - dt] : t \in timers}
           /\ sinceMut' = Min(sinceMut + dt, AutosaveDelayMs)
    /\ UNCHANGED <<retry, apiKey, user, state, currentProjectId, projects, store,
                   calls, loads, creates, listFetch, allocated, ops,
                   stateOwner, burst, writes, saveFailed, generated>>
    /\ lastWrite' = NoWrite /\ ended' = NoCall
    /\ UNCHANGED <<deletes, fs, lastSaved, storedGenerated>>
    /\ loaded' = NoLoad /\ reset' = NoReset
    /\ UNCHANGED deletedActive
    /\ ingest' = NoIngest

\* The timeouts pending after the callback of timeout t has run, whether its
\* saveProject call failed or not: the callback sets no timeout.
\* (TimeoutsAfterSave_retriesOnFailure: a callback that sets the timeout again
\* when the save failed.)
TimeoutsAfterSave_retriesOnFailure(pending, t, failed) ==
    IF failed
    THEN (pending \ {t}) \cup {[t EXCEPT !.remaining = AutosaveDelayMs]}
    ELSE pending \ {t}

TimeoutsAfterSave(pending, t, failed) == pending \ {t}

\* setProjects(prev => prev.map(p => p.id === currentProjectId
\*     ? { ...p, title: state.title, updatedAt: Date.now() } : p))
\* (refreshMetadata_firstEntry: a refresh of the entry at the head of the list,
\* whichever project it is.)
refreshMetadata_firstEntry(prev, pid, st) ==
    [k \in 1..Len(prev) |->
        IF k = 1 THEN [prev[k] EXCEPT !.title = st.title, !.saved = TRUE]
        ELSE prev[k]]

refreshMetadata(prev, pid, st) ==
    [k \in 1..Len(prev) |->
        IF prev[k].id = pid THEN [prev[k] EXCEPT !.title = st.title, !.saved = TRUE]
        ELSE prev[k]]

\* The timeout callback: saveProject(user.uid, currentProjectId, state), not
\* awaited, then setProjects(prev => prev.map(...)) with the captured values.
TimerFire(t) ==
    /\ t \in timers
    /\ t.remaining = 0
    /\ \E reachable \in BOOLEAN :
        /\ timers' = TimeoutsAfterSave(timers, t, ~reachable)
        /\ saveFailed' = ~reachable
        /\ lastWrite' = [pid |-> t.pid, st |-> t.st, owner |-> t.owner,
                         elapsed |-> sinceMut, current |-> state, burst |-> burst,
                         afterSwitch |-> t.afterSwitch,
                         existed |-> StoreHas(store, t.pid),
                         failed |-> ~reachable,
                         afterFailure |-> t.afterFailure,
                         listBefore |-> projects]
        /\ IF reachable
           THEN /\ store' = storeSave(store, t.pid, t.st)
                /\ storedGenerated' = [storedGenerated EXCEPT ![t.pid] = t.generated]
                /\ lastSaved' = [lastSaved EXCEPT ![t.pid] = t.st]
           ELSE UNCHANGED <<store, storedGenerated, lastSaved>>
    /\ projects' = refreshMetadata(projects, t.pid, t.st)
    /\ writes' = writes + 1
    /\ UNCHANGED <<retry, apiKey, user, state, currentProjectId, calls, loads,
                   creates, listFetch, allocated, ops, stateOwner, sinceMut,
                   burst, generated>>
    /\ ended' = NoCall
    /\ UNCHANGED <<deletes, fs>>
    /\ loaded' = NoLoad /\ reset' = NoReset
    /\ UNCHANGED deletedActive
    /\ ingest' = NoIngest

\* ---------------------------------------------------------- specifications

Init == ProviderInit /\ retry = RetryIdle /\ fs = FsIdle

Next ==
    \/ SignIn
    \/ SignOut
    \/ \E i \in 1..Len(listFetch) : ListFetched(i)
    \/ \E pid \in ProjectIds : LoadStart(pid)
    \/ \E pid \in ProjectIds : LoadDone(pid)
    \/ CreateStart
    \/ \E title \in creates : CreateDone(title)
    \/ \E pid \in ProjectIds : DeleteStart(pid)
    \/ \E d \in deletes : DeleteDone(d)
    \/ \E idea \in IdeaInputs : UpdateIdea(idea)
    \/ \E file \in Files : AddResearch(file)
    \/ ResetProject
    \/ \E step \in Steps : GenStart(step)
    \/ \E c \in calls : GenFinish(c)
    \/ Tick
    \/ \E t \in timers : TimerFire(t)

Spec == Init /\ [][Next]_vars

\* The retry loop on its own, against every scripted backend.
RetryInit ==
    /\ ProviderInit
    /\ fs = FsIdle
    /\ apiKey = TRUE
    /\ \E m \in 0..MaxRetriesArg :
        \E script \in Scripts(IF m = 0 THEN 1 ELSE m) :
            retry = RetryStart(script, m)

RetryReturn ==
    /\ retry.pc = "loop"
    /\ retry.attempt < retry.maxRetries
    /\ NextOutcome(retry).kind = "response"
    /\ retry' = RetryStep(retry)
    /\ UNCHANGED <<fs, provider, history>>

RetryBackoff ==
    /\ retry.pc = "loop"
    /\ retry.attempt < retry.maxRetries
    /\ NextOutcome(retry).kind = "error"
    /\ shouldRetry(NextOutcome(retry), retry.attempt, retry.maxRetries)
    /\ retry' = RetryStep(retry)
    /\ UNCHANGED <<fs, provider, history>>

RetryThrow ==
    /\ retry.pc = "loop"
    /\ retry.attempt < retry.maxRetries
    /\ NextOutcome(retry).kind = "error"
    /\ ~shouldRetry(NextOutcome(retry), retry.attempt, retry.maxRetries)
    /\ retry' = RetryStep(retry)
    /\ UNCHANGED <<fs, provider, history>>

RetryLoopExit ==
    /\ retry.pc = "loop"
    /\ ~(retry.attempt < retry.maxRetries)
    /\ retry' = RetryStep(retry)
    /\ UNCHANGED <<fs, provider, history>>

RetryNext == RetryReturn \/ RetryBackoff \/ RetryThrow \/ RetryLoopExit

RetrySpec == RetryInit /\ [][RetryNext]_vars

\* The loop keeps running: every await in it settles (the scripted backend
\* answers every call, and delay() resolves after its timeout).
RetryFairSpec == RetrySpec /\ WF_vars(RetryNext)

\* The firebase module of src on its own: callers save and load project
\* states, and setDoc / getDoc may fail.
StoreInit == ProviderInit /\ retry = RetryIdle /\ fs = FsIdle

FsSave(u, data) ==
    /\ \E fails \in BOOLEAN :
        LET r == saveProject(fs.db, u, data, fails) IN
        fs' = [db |-> r.db,
               op |-> [kind |-> "save", user |-> u, project |-> data.id,
                       failed |-> fails, existed |-> fs.db[u] # NoDoc,
                       value |-> data, threw |-> r.threw, before |-> fs.db]]
    /\ UNCHANGED <<retry, provider, history>>

\* A caller loads project `pid` of user u.
FsLoad(u, pid) ==
    /\ \E fails \in BOOLEAN :
        LET r == loadProject(fs.db, u, fails) IN
        fs' = [db |-> fs.db,
               op |-> [kind |-> "load", user |-> u, project |-> pid,
                       failed |-> fails, existed |-> fs.db[u] # NoDoc,
                       value |-> r.value, threw |-> r.threw, before |-> fs.db]]
    /\ UNCHANGED <<retry, provider, history>>

StoreNext ==
    \/ \E u \in Users, data \in FsStates : FsSave(u, data)
    \/ \E u \in Users, pid \in ProjectIds : FsLoad(u, pid)

StoreSpec == StoreInit /\ [][StoreNext]_vars

\* -------------------------------------------- claims: generateArtifact

\* A generateArtifact call has just ended; `ended` describes it and the
\* current state is the state it left.
JustEnded == ended.step # "none"
JustFailed == JustEnded /\ ended.thrown # NoError

\* C1: for every stage with a prerequisite, generateArtifact invoked while the
\* prerequisite's output slot is empty fails with PrerequisiteMissingError
\* and makes no backend call.
C1_PrerequisiteMissingRaised ==
    /\ \A c \in calls : c.prereqEmpty => ~c.requested
    /\ (JustEnded /\ ended.prereqEmpty)
          => /\ ended.outcome = "raised"
             /\ ended.raised.class = "prerequisite_missing"
             /\ ~ended.calledBackend

\* C2: at most one generation call is in flight: while a generateArtifact call
\* has a backend request outstanding, no second one starts a backend request.
C2_SingleFlight ==
    Cardinality({c \in calls : c.requested}) <= 1

\* C3 (as stated): when a generateArtifact call ends on a backend error, the
\* in-progress flag is false and every output slot holds the value it had when
\* the call started. Stated for a call that no other generation call
\* overlapped, so that only the call itself and the user's other operations
\* can have touched the slots.
C3_FailureKeepsSlotsSinceStart ==
    (JustFailed /\ ~ended.overlapped)
        => /\ ~state.isGenerating
           /\ SlotValues(state) = ended.slotsAtStart

\* C3 (amended): when a generateArtifact call ends on an error, the in-progress
\* flag is false and the failing call itself writes no output slot: every
\* slot, the call's own included, holds the value it held just before the
\* call ended.
C3_FailureWritesNoSlot ==
    JustFailed => /\ ~state.isGenerating
                  /\ SlotValues(state) = ended.slotsBefore

\* A regeneration of an already generated stage has failed, and the stage's
\* previous output is still in its slot.
C3_Witness ==
    /\ JustFailed
    /\ ended.calledBackend
    /\ ended.regenerated
    /\ Truthy(state[SlotOf(ended.step)])

\* C4: every error raised on the generation path reaches the caller of
\* generateArtifact unchanged: the call ends by raising that same error,
\* never by returning normally.
C4_ErrorsPropagate ==
    JustFailed => /\ ended.outcome = "raised"
                  /\ ended.raised = ended.thrown

\* ----------------------------------------------------- claims: autosave

\* A saveProject call has just been issued; `lastWrite` describes it.
JustWrote == lastWrite # NoWrite

\* C9: for a signed-in user with an active project, a burst of mutations, each
\* less than the quiet period after the one before, produces exactly one
\* saveProject call, issued one quiet period after the last mutation and
\* carrying the state as of the last mutation: while the burst lasts, the one
\* pending save is the one of the latest state and nothing has been written;
\* afterwards exactly one write has been issued.
C9_DebouncedSave ==
    /\ JustWrote => /\ lastWrite.elapsed = AutosaveDelayMs
                    /\ lastWrite.st = lastWrite.current
                    /\ lastWrite.pid = currentProjectId
                    /\ writes = 1
    /\ (user # NoUser /\ currentProjectId # NoId)
          => \/ /\ writes = 0
                /\ Cardinality(timers) = 1
                /\ \A t \in timers : /\ t.st = state
                                     /\ t.pid = currentProjectId
                                     /\ t.remaining = AutosaveDelayMs - sinceMut
             \/ /\ writes = 1
                /\ timers = {}

\* The one write of a burst of at least two mutations has been issued.
C9_Witness ==
    /\ JustWrote
    /\ lastWrite.burst = "many"
    /\ user # NoUser
    /\ lastWrite.st.ideaInput # <<>>

\* C10: every saveProject call is issued with a project identifier and a state
\* that belong together: a save pending for the previous project does not
\* outlive a switch, and what is written under an identifier is the state
\* loaded or created as that project.
C10_SaveMatchesProject ==
    /\ \A t \in timers : /\ t.pid = t.owner
                         /\ t.pid = currentProjectId
                         /\ t.st.id \in {t.pid, NoId}
    /\ JustWrote => /\ lastWrite.pid = lastWrite.owner
                    /\ lastWrite.st.id \in {lastWrite.pid, NoId}

\* A write was issued for the project switched to, after the switch had
\* discarded a save pending for the previous project.
C10_Witness ==
    /\ JustWrote
    /\ lastWrite.afterSwitch
    /\ lastWrite.pid = currentProjectId

\* C11: once deleteProject has removed a project's document, no saveProject
\* call is issued for its identifier: every call is for a project whose
\* document is in the store when the call is issued. (The active project is
\* always one that was created in or loaded from the store, so a call for an
\* identifier with no document is a call for a deleted project.)
C11_NoSaveAfterDelete ==
    JustWrote => lastWrite.existed

\* ------------------------------------------------- claims: output slots

JustSucceeded == JustEnded /\ ended.thrown = NoError

C13_SuccessWritesReturnedText ==
    JustSucceeded => /\ state[SlotOf(ended.step)] = ended.responseText
                     /\ ~state.isGenerating

\* The fields a generation of `step` may change: its slot and the flag.
RegenerationFrame(step) == DOMAIN state \ {SlotOf(step), "isGenerating"}

JustRegenerated == JustSucceeded /\ ended.regenerated

\* C14 (as stated): after a regeneration of a completed stage, the other
\* stages' output slots, the idea input, the research list, the title and the
\* project identifier are what they were when the call was made. Stated for
\* a call that no other generation call overlapped.
C14_RegenerationKeepsRestSinceStart ==
    (JustRegenerated /\ ~ended.overlapped)
        => /\ \A f \in RegenerationFrame(ended.step) : state[f] = ended.atStart[f]
           /\ currentProjectId = ended.idAtStart

\* C14 (amended): a regeneration of a completed stage itself changes only the
\* stage's output slot and the in-progress flag: its first step changes at
\* most the flag, and its last step leaves every other slot, the idea input,
\* the research list, the title and the project identifier as they were just
\* before it.
C14_RegenerationWritesOnlyItsSlot ==
    JustRegenerated
        => /\ ended.touchedAtStart \subseteq {"isGenerating"}
           /\ \A f \in RegenerationFrame(ended.step) : state[f] = ended.before[f]
           /\ currentProjectId = ended.idBefore

\* A stage was regenerated while downstream output, idea input and research
\* were present, and its slot changed.
C14_Witness ==
    /\ JustRegenerated
    /\ state[SlotOf(ended.step)] # ended.before[SlotOf(ended.step)]
    /\ \/ Truthy(state.ideaInput)
       \/ Len(state.research) > 0
       \/ \E sl \in Slots \ {SlotOf(ended.step)} : Truthy(state[sl])

\* ------------------------------------------------ claims: resetProject

\* resetProject has just run; `reset` holds the state it was called in.
JustReset == reset.done

\* C15: resetProject followed immediately by resetProject yields the same
\* state as a single resetProject, and in that state the five output slots,
\* the research list and the idea input are empty.
C15_ResetIdempotent ==
    JustReset
        => /\ \A sl \in Slots : state[sl] = <<>>
           /\ state.research = <<>>
           /\ state.ideaInput = <<>>
           /\ resetProject(state) = state
           /\ reset.again => state = reset.before

\* resetProject has run twice in a row on a project with a title of its own.
C15_Witness ==
    /\ JustReset
    /\ reset.again
    /\ state.title # UntitledTitle

\* C16: resetProject leaves identity and title unchanged: the state's
\* identifier field, the active project identifier and the title are what
\* they were before the call.
C16_ResetKeepsIdentity ==
    JustReset
        => /\ state.id = reset.before.id
           /\ currentProjectId = reset.idBefore
           /\ state.title = reset.before.title

\* C20: a save attempt that fails because the store is unreachable is
\* dropped: the state in memory is unchanged by it, no save attempt is
\* pending until the next mutation, and the save the next mutation schedules
\* is issued one quiet period after it, with its state.
C20_FailedSaveDropped ==
    /\ (JustWrote /\ lastWrite.failed) => state = lastWrite.current
    /\ saveFailed => timers = {}
    /\ \A t \in timers :
          t.afterFailure => /\ t.st = state
                            /\ t.remaining = AutosaveDelayMs - sinceMut
    /\ (JustWrote /\ lastWrite.afterFailure)
          => /\ lastWrite.elapsed = AutosaveDelayMs
             /\ lastWrite.st = lastWrite.current

\* After a failed save attempt, the save scheduled by the next mutation has
\* been issued.
C20_Witness ==
    /\ JustWrote
    /\ lastWrite.afterFailure
    /\ ~lastWrite.failed
    /\ lastSaved[lastWrite.pid] = state

\* ------------------------------------------------- claims: the store

\* loadProject has just returned a stored state to loadProjectDetails.
JustLoaded == loaded.found

LoadOf(db, u, pid) == loadProject(db, u, FALSE).value

\* C18: stored states are keyed by (user, project identifier): a save of one
\* project of a user does not change what a load of another project of that
\* user returns.
C18_SaveKeepsOtherProjects ==
    (fs.op.kind = "save" /\ ~fs.op.failed)
        => \A pid \in ProjectIds \ {fs.op.project} :
              LoadOf(fs.db, fs.op.user, pid) = LoadOf(fs.op.before, fs.op.user, pid)

\* C19: loadProject returns the not-found sentinel, without raising, exactly
\* when the document is absent; a failure of the read is raised as an error,
\* never returned as the sentinel.
C19_NotFoundOnlyWhenAbsent ==
    fs.op.kind = "load"
        => /\ (~fs.op.failed /\ ~fs.op.existed)
                => (fs.op.value = Null /\ fs.op.threw.class = "none")
           /\ fs.op.failed
                => (fs.op.threw.class # "none" /\ fs.op.value # Null)
           /\ (fs.op.value = Null /\ fs.op.threw.class = "none")
                => ~fs.op.existed /\ ~fs.op.failed

\* -------------------------------------------- claims: the project list

\* No handler is awaiting the store: handleDeleteProject and the
\* loadProjectDetails or createNewProject call it starts have finished.
HandlersFinished ==
    deletes = {} /\ loads = {} /\ creates = {} /\ listFetch = <<>>

\* C22: after handleDeleteProject has deleted the active project, once the
\* handler and the operations it starts have finished, the active project
\* identifier is not the deleted identifier and is that of a project in the
\* store.
C22_DeletedActiveIsReplaced ==
    (user # NoUser /\ deletedActive # NoId /\ HandlersFinished)
        => /\ currentProjectId # deletedActive
           /\ StoreHas(store, currentProjectId)

BinaryMediaTypes == {"application/pdf", "image/png"}

\* The uploaded file a research document was made from.
FileOf(doc) == CHOOSE f \in Files : f.name = doc.name

\* C23: for every research document produced by addResearch, the content
\* encoding is determined by the media type: a document of a binary media
\* type holds the base64 encoding of the file's bytes with no data-URI prefix,
\* a document of a text media type holds the decoded text, and a file with an
\* empty media type is stored with media type text/plain.
C23_EncodingFollowsMediaType ==
    \A i \in 1..Len(state.research) :
        LET doc == state.research[i]
            file == FileOf(doc)
        IN  /\ doc.mimeType \in BinaryMediaTypes => doc.content = Base64(file.bytes)
            /\ doc.mimeType \notin BinaryMediaTypes => doc.content = FileText(file)
            /\ file.type = "" => doc.mimeType = "text/plain"

\* C24: when the bytes of an uploaded file cannot be read to completion,
\* addResearch ends by raising an error to its caller, for PDF and text files
\* alike, and the research list is unchanged.
C24_UnreadableFileRaises ==
    ingest.failed => /\ ingest.settled = "rejected"
                     /\ state.research = ingest.before

\* C25: the PRD payload for a research list of n documents has exactly n + 1
\* parts: the first is the instruction text containing the synthesized idea
\* when it is non-empty and the raw idea input otherwise; part i + 1 is, for a
\* binary document i, an attachment part with the document's media type and
\* its content unchanged, and otherwise a delimited text part containing the
\* document's name and content.
C25_PrdPayloadParts ==
    \A c \in calls :
        c.step = "PRD" =>
            LET research == c.atStart.research
                idea == IF Truthy(c.atStart.synthesizedIdea)
                        THEN c.atStart.synthesizedIdea ELSE c.atStart.ideaInput
                parts == PrdParts(c.args.idea, c.args.research)
            IN  /\ Len(parts) = Len(research) + 1
                /\ parts[1].kind = "text"
                /\ Includes(parts[1].text, idea)
                /\ \A i \in 1..Len(research) :
                      IF research[i].mimeType \in BinaryMediaTypes
                      THEN /\ parts[i + 1].kind = "inlineData"
                           /\ parts[i + 1].mimeType = research[i].mimeType
                           /\ parts[i + 1].data = research[i].content
                      ELSE /\ parts[i + 1].kind = "text"
                           /\ Includes(parts[i + 1].text, <<research[i].name>>)
                           /\ Includes(parts[i + 1].text, research[i].content)

\* ------------------------------------- claims: edits during generation

\* The idea passed to updateIdea and the documents appended by addResearch
\* while call c was in flight are in the state.
EditsPresent(c) ==
    /\ c.edited => state.ideaInput = c.lastIdea
    /\ \A i \in 1..Len(c.added) :
          \E j \in 1..Len(state.research) : state.research[j] = c.added[i]

C27_ResultStaysInItsProject ==
    (JustSucceeded /\ ended.idAtStart # NoId /\ currentProjectId # ended.idAtStart)
        => /\ state[SlotOf(ended.step)] = ended.before[SlotOf(ended.step)]
           /\ \A t \in timers :
                 t.st[SlotOf(ended.step)] = ended.before[SlotOf(ended.step)]

\* ------------------------------------------ claims: the in-progress flag

\* C28: the in-progress flag is transient: no stored state has it set, and
\* after loadProjectDetails has installed a stored state the flag is set
\* only if a generation call is in flight, so that a loaded project never has
\* its generation triggers disabled with no call in flight.
C28_FlagNotPersisted ==
    /\ \A i \in 1..Len(store) : ~store[i].data.isGenerating
    /\ (JustWrote /\ ~lastWrite.failed) => ~lastWrite.st.isGenerating
    /\ JustLoaded => (state.isGenerating => calls # {})
    /\ JustLoaded => (calls = {} => \E step \in Steps : CanTrigger(step, state))

\* C29: in every reachable state, whenever a generateArtifact call has started
\* and not yet finished, the in-progress flag of the active project state is
\* true: no interleaved operation clears it while the call is in flight.
C29_FlagHeldWhileInFlight ==
    calls # {} => state.isGenerating

\* ------------------------------------------------- claims: the retry loop

AllRateLimited(r) ==
    \A i \in DOMAIN r.script : r.script[i].class = "rate_limit"

\* C5: when the backend answers every call with a rate-limit failure, exactly
\* maxRetries calls are made and the operation ends by raising a terminal
\* error that is not the backend's own rate-limit error.
C5_ExhaustionRaisesTerminalError ==
    (retry.pc = "done" /\ retry.maxRetries >= 1 /\ AllRateLimited(retry))
        => /\ Calls(retry) = retry.maxRetries
           /\ retry.result.kind = "threw"
           /\ retry.result.value.class # "rate_limit"

\* C6: with maxRetries = 3, a backend that fails with a rate-limit signal on
\* the first two calls and succeeds on the third is called exactly 3 times,
\* with a delay of 1000 ms before the second call and 2000 ms before the
\* third, and the third call's response is returned.
TwoRateLimitsThenSuccess(r) ==
    /\ r.maxRetries = DefaultMaxRetries
    /\ r.script[1].class = "rate_limit"
    /\ r.script[2].class = "rate_limit"
    /\ r.script[3].kind = "response"

C6_TwoFailuresThenSuccess ==
    (retry.pc = "done" /\ TwoRateLimitsThenSuccess(retry))
        => /\ Calls(retry) = 3
           /\ retry.trace = <<CallEvent, DelayEvent(1000), CallEvent,
                              DelayEvent(2000), CallEvent>>
           /\ retry.result = [kind |-> "returned", value |-> retry.script[3]]

C6_Witness ==
    /\ retry.pc = "done"
    /\ TwoRateLimitsThenSuccess(retry)
    /\ retry.script[1] # retry.script[2]
    /\ retry.result.kind = "returned"

\* C7: when the first backend call fails with a non-retryable error
\* (authentication, malformed request, content policy), exactly one call is
\* made, no backoff delay is taken and that same error is raised, whatever
\* the error's message text.
C7_NonRetryablePropagatesAtOnce ==
    (retry.pc = "done" /\ retry.maxRetries >= 1
        /\ retry.script[1].class \in {"auth", "malformed", "policy"})
        => /\ Calls(retry) = 1
           /\ Delays(retry) = <<>>
           /\ retry.result = [kind |-> "threw", value |-> retry.script[1]]

\* C8: a service-unavailable failure (status 503) is retried like a rate
\* limit: when the first call fails with it and the second succeeds, a
\* second call is made after the backoff delay and its response is returned.
C8_UnavailableIsRetried ==
    (retry.pc = "done" /\ retry.maxRetries >= 2
        /\ retry.script[1].class = "unavailable"
        /\ retry.script[2].kind = "response")
        => /\ Calls(retry) = 2
           /\ Delays(retry) = <<waitTime(0)>>
           /\ retry.result = [kind |-> "returned", value |-> retry.script[2]]

\* The delays 1000 * 2^k for k = 0 .. n - 1.
BackoffSchedule(n) == [k \in 1..n |-> 1000 * (2 ^ (k - 1))]

\* Every delay in the trace stands between two backend calls.
DelaysOnlyBetweenCalls(r) ==
    \A i \in 1..Len(r.trace) :
        r.trace[i].ev = "delay"
            => /\ i > 1 /\ r.trace[i - 1].ev = "call"
               /\ i < Len(r.trace) => r.trace[i + 1].ev = "call"
               /\ r.pc = "done" => i < Len(r.trace)

\* What C30 says of every state of a run with maxRetries >= 1.
RetryBounded(r) ==
    r.maxRetries >= 1
        => /\ Calls(r) <= r.maxRetries
           /\ r.pc = "done" => /\ Calls(r) >= 1
                               /\ r.result.kind \in {"returned", "threw"}
           /\ r.pc = "loop" => r.attempt < r.maxRetries
           /\ DelaysOnlyBetweenCalls(r)
           /\ Delays(r) = BackoffSchedule(Len(Delays(r)))
           /\ Len(Delays(r)) <= r.maxRetries - 1

\* C30: for every maxRetries >= 1 and every scripted sequence of backend
\* outcomes, generateContentWithRetry terminates (returns a response or
\* raises) after at least 1 and at most maxRetries backend calls, takes a
\* backoff delay only between two consecutive calls, the delay after the k-th
\* failed call (k from 0) being 1000 * 2^k ms, so at most maxRetries - 1
\* delays occur.
C30_RetryTerminatesWithinBounds ==
    /\ [](RetryBounded(retry))
    /\ <>(retry.pc = "done")

\* A run with maxRetries = 3 has ended after three calls and two delays.
C30_Witness ==
    /\ retry.pc = "done"
    /\ retry.maxRetries = 3
    /\ Calls(retry) = 3
    /\ Delays(retry) = <<1000, 2000>>

====
